---- MODULE Spec2Model ----
(***************************************************************************)
(* The SPL lexer of exercises/spl/src/lexer.rs as a state machine, and     *)
(* after it the stack, the bracket checker and the expression-tree         *)
(* evaluators of the other exercises, each with a specification of its     *)
(* own.                                                                    *)
(*                                                                         *)
(* A character is a one-character string, a string of the program a        *)
(* sequence of characters.  The state of a Lexer is its three fields       *)
(* (chars, line, column); the state of a running tokenize adds its locals  *)
(* (c, tokens, name, number), the locals of the scanning primitive that is *)
(* running (expected, pred, out, ok) and the lines written to the standard *)
(* error stream (stderr).  Every handler is an operator from a state       *)
(* record to a state record, and every action applies one handler.         *)
(***************************************************************************)
EXTENDS Integers, Sequences, FiniteSets, TLC

VARIABLES
    source,     \* the text handed to Lexer::new
    chars,      \* Lexer.chars: the characters not yet consumed
    line,       \* Lexer.line
    column,     \* Lexer.column
    pc,         \* the position of tokenize in its code
    c,          \* tokenize: the character the dispatch loop is handling
    tokens,     \* tokenize: the tokens pushed so far
    stderr,     \* the arguments of every eprintln! so far, in order
    caller,     \* which arm called the scanning primitive that is running
    expected,   \* advance_until_equal: its argument
    pred,       \* advance_while_matching: its closure
    out,        \* advance_until_equal / advance_while_matching: their `out`
    ok,         \* advance_until_equal: TRUE for Ok(out), FALSE for Err(())
    name,       \* tokenize: the identifier being built
    number,     \* tokenize: the number being built
    eof_hits,   \* history: how many calls of advance() returned None
    c_at,       \* history: the place in source of the character c
    starts,     \* history: for each token pushed, the place in source of
                \* the character whose round of the loop pushed it
    content,    \* Stack.content, its front first
    op,         \* the call made last on the stack, checker or evaluator
    result,     \* what that call returned
    pushes,     \* history: how many push calls were made
    pops,       \* history: how many pop calls returned an item
    live,       \* history: the items pushed and not yet popped, oldest first
    tree,       \* the expression handed to accept or to eval
    frames,     \* accept: its pending calls, the running one first
    input,      \* is_balanced: its argument s
    rest        \* is_balanced: the characters s.chars() has yet to yield

lexer_vars == <<source, chars, line, column, pc, c, tokens, stderr, caller,
                expected, pred, out, ok, name, number, eof_hits, c_at,
                starts>>

stack_vars == <<content, op, result, pushes, pops, live>>

tree_vars == <<tree, frames>>

brackets_vars == <<input, rest>>

vars == <<lexer_vars, stack_vars, tree_vars, brackets_vars>>

----------------------------------------------------------------------------
(* The characters of the model and their classes.                          *)

None == "None"

(* Option<T> of a value that is no character: Some(x), and None as the     *)
(* empty sequence.                                                         *)
Some(x) == <<x>>

Nothing == << >>

(* No stack, tree or bracket text is in use. *)
StackIdle ==
    /\ content = << >> /\ op = None /\ result = None
    /\ pushes = 0 /\ pops = 0 /\ live = << >>

TreeIdle == tree = None /\ frames = << >>

BracketsIdle == input = << >> /\ rest = << >>

Letters ==
    {"a", "b", "c", "d", "e", "f", "h", "i", "l", "m", "n", "o", "p", "r",
     "s", "t", "u", "v", "w", "H", "T"}

Digits == {"0", "1", "2", "3", "4", "5", "6", "7", "8", "9"}

(* A character that is numeric and no decimal digit (superscript two): it  *)
(* is written as the name of its code point.                               *)
OtherNumerics == {"U+00B2"}

IsAlphabetic(ch) == ch \in Letters

IsDigit(ch) == ch \in Digits

IsAlphanumeric(ch) == ch \in Letters \cup Digits \cup OtherNumerics

Matches(p, ch) ==
    CASE p = "is_alphabetic" -> IsAlphabetic(ch)
      [] p = "is_alphanumeric" -> IsAlphanumeric(ch)
      [] p = "is_digit" -> IsDigit(ch)
      [] OTHER -> FALSE

----------------------------------------------------------------------------
(* The inputs: every text of at most MaxLen characters over ShortAlphabet, *)
(* and the texts of the program's own tests.                               *)

MaxLen == 3

ShortAlphabet ==
    {"+", "/", "=", "<", "!", "\"", "\n", " ", "i", "f", "3", ".", "#",
     "U+00B2"}

ShortSources == UNION {[1..n -> ShortAlphabet] : n \in 0..MaxLen}

SampleSources ==
    { <<"!">>,
      <<"i", "f", "3", "2">>,
      <<"f", "o", "o">>,
      <<"1", "2", "3">>,
      <<"1", "2", "3", ".", "4", "5", "6">>,
      <<"1", "2", "3", ".">>,
      <<"1", "2", "3", ".", "4", "5", "6", ".">>,
      <<"\"", "H", "e", "l", "l", "o", " ", "w", "o", "r", "l", "d", "\"">>,
      <<"\"", "H", "e", "l", "l", "o", " ", "w", "o", "r", "l", "d">>,
      <<"/", "/", " ", "T", "h", "i", "s", " ", "i", "s", " ", "a", " ", "c",
        "o", "m", "m", "e", "n", "t", "\n", "1">>,
      <<"a", " ", "=", " ", "1", ";", "\n", "b", " ", "=", " ", "2", ";">>,
      <<"t", "r", "u", "e">>,
      <<"f", "a", "l", "s", "e">>,
      <<"a", "n", "d">>,
      <<"o", "r">>,
      <<"v", "a", "r">>,
      <<"p", "r", "i", "n", "t">>,
      <<"i", "f">>,
      <<"e", "l", "s", "e">>,
      <<"w", "h", "i", "l", "e">>,
      <<"=", "=">>,
      <<">", "=">>,
      <<"<", "=">>,
      <<"!", "=">>,
      <<">">>,
      <<"-", "*", ";", "(", ")", "{", "}">>,
      <<"\"", "a", "\n", "b", "\"", " ", "1">>,
      <<"\t", "1">>,
      <<"-">>, <<"*">>, <<";">>, <<"(">>, <<")">>, <<"{">>, <<"}">>,
      <<" ", "\t", "\n", "/", "/", " ", "c", "\n", "\t", "/", "/", "c">> }

Sources == ShortSources \cup SampleSources

----------------------------------------------------------------------------
(* Lexer::new, and the state of a tokenize call that has not started.      *)

NewLexer(src) ==
    [ source |-> src, chars |-> src, line |-> 1, column |-> 0,
      pc |-> "loop", c |-> None, tokens |-> << >>, stderr |-> << >>,
      caller |-> None, expected |-> None, pred |-> None, out |-> << >>,
      ok |-> TRUE, name |-> << >>, number |-> << >>, eof_hits |-> 0,
      c_at |-> 0, starts |-> << >> ]

St ==
    [ source |-> source, chars |-> chars, line |-> line, column |-> column,
      pc |-> pc, c |-> c, tokens |-> tokens, stderr |-> stderr,
      caller |-> caller, expected |-> expected, pred |-> pred, out |-> out,
      ok |-> ok, name |-> name, number |-> number, eof_hits |-> eof_hits,
      c_at |-> c_at, starts |-> starts ]

Becomes(s) ==
    /\ source' = s.source
    /\ chars' = s.chars
    /\ line' = s.line
    /\ column' = s.column
    /\ pc' = s.pc
    /\ c' = s.c
    /\ tokens' = s.tokens
    /\ stderr' = s.stderr
    /\ caller' = s.caller
    /\ expected' = s.expected
    /\ pred' = s.pred
    /\ out' = s.out
    /\ ok' = s.ok
    /\ name' = s.name
    /\ number' = s.number
    /\ eof_hits' = s.eof_hits
    /\ c_at' = s.c_at
    /\ starts' = s.starts
    /\ UNCHANGED <<stack_vars, tree_vars, brackets_vars>>

----------------------------------------------------------------------------
(* The cursor primitives.  A primitive that returns a value gives the      *)
(* record [ret, lex]: what it returns and the state it leaves.             *)

Peek(s) == IF s.chars = << >> THEN None ELSE Head(s.chars)

Chars_next(s) ==
    [ ret |-> Peek(s),
      lex |-> IF s.chars = << >> THEN s ELSE [s EXCEPT !.chars = Tail(@)] ]

(* advance() with `self.line += 1` left out. *)
AdvanceLine_NoIncrement(next, ln) == ln

AdvanceLine(next, ln) == IF next = "\n" THEN ln + 1 ELSE ln

(* advance() with `self.column = 0` left out. *)
AdvanceColumn_NoReset(next, col) == col + 1

AdvanceColumn(next, col) == IF next = "\n" THEN 0 ELSE col + 1

(* advance() returning the character after the one it removed. *)
Advance_ReturnsFollowing(s) ==
    LET n == Chars_next(s)
    IN  [ ret |-> Peek(n.lex),
          lex |-> [n.lex EXCEPT
                     !.line = AdvanceLine(n.ret, @),
                     !.column = AdvanceColumn(n.ret, @),
                     !.eof_hits = IF n.ret = None THEN @ + 1 ELSE @] ]

Advance(s) ==
    LET n == Chars_next(s)
    IN  [ ret |-> n.ret,
          lex |-> [n.lex EXCEPT
                     !.line = AdvanceLine(n.ret, @),
                     !.column = AdvanceColumn(n.ret, @),
                     !.eof_hits = IF n.ret = None THEN @ + 1 ELSE @] ]

(* advance_if_equal with `self.chars.next()` left out. *)
AdvanceIfEqual_NoConsume(s, e) ==
    IF Peek(s) # None /\ Peek(s) = e
    THEN [ ret |-> TRUE, lex |-> [s EXCEPT !.column = @ + 1] ]
    ELSE [ ret |-> FALSE, lex |-> s ]

(* advance_if_equal with `self.column += 1` left out. *)
AdvanceIfEqual_NoColumn(s, e) ==
    IF Peek(s) # None /\ Peek(s) = e
    THEN [ ret |-> TRUE, lex |-> Chars_next(s).lex ]
    ELSE [ ret |-> FALSE, lex |-> s ]

AdvanceIfEqual(s, e) ==
    IF Peek(s) # None /\ Peek(s) = e
    THEN [ ret |-> TRUE,
           lex |-> [Chars_next(s).lex EXCEPT !.column = @ + 1] ]
    ELSE [ ret |-> FALSE, lex |-> s ]

----------------------------------------------------------------------------
(* tokenize: the token it pushes, and the end of one round of its loop,    *)
(* where the locals of the round go out of scope.                          *)

(* enum TokenType *)
TokenTypes ==
    { "Plus", "Minus", "Times", "Divide", "Equals", "DoubleEquals",
      "NotEquals", "Greater", "Less", "GreaterOrEqual", "LessOrEqual",
      "Semicolon", "OpeningParentheses", "ClosingParentheses",
      "OpeningBraces", "ClosingBraces",
      "True", "False", "And", "Or", "Var", "Print", "If", "Else", "While",
      "Number", "String", "Identifier", "EndOfile" }

Token(type, lexeme, ln) ==
    [ token_type |-> type, lexeme |-> lexeme, line |-> ln ]

Push_Prepends(s, type, lexeme) ==
    [s EXCEPT !.tokens = <<Token(type, lexeme, s.line)>> \o @,
              !.starts = <<s.c_at>> \o @]

Push(s, type, lexeme) ==
    [s EXCEPT !.tokens = Append(@, Token(type, lexeme, s.line)),
              !.starts = Append(@, s.c_at)]

EndRound(s) ==
    [s EXCEPT !.pc = "loop", !.c = None, !.caller = None, !.expected = None,
              !.pred = None, !.out = << >>, !.ok = TRUE, !.name = << >>,
              !.number = << >>, !.c_at = 0]

Eprintln(s, args) == [s EXCEPT !.stderr = Append(@, args)]

SingleChars == {"+", "-", "*", ";", "(", ")", "{", "}"}

SingleCharType_OneParenthesis(ch) ==
    CASE ch = "+" -> "Plus"
      [] ch = "-" -> "Minus"
      [] ch = "*" -> "Times"
      [] ch = ";" -> "Semicolon"
      [] ch \in {"(", ")"} -> "OpeningParentheses"
      [] ch = "{" -> "OpeningBraces"
      [] ch = "}" -> "ClosingBraces"

SingleCharType(ch) ==
    CASE ch = "+" -> "Plus"
      [] ch = "-" -> "Minus"
      [] ch = "*" -> "Times"
      [] ch = ";" -> "Semicolon"
      [] ch = "(" -> "OpeningParentheses"
      [] ch = ")" -> "ClosingParentheses"
      [] ch = "{" -> "OpeningBraces"
      [] ch = "}" -> "ClosingBraces"

CompareChars == {"=", ">", "<"}

CompareType(ch, followed) ==
    CASE ch = "=" -> IF followed THEN "DoubleEquals" ELSE "Equals"
      [] ch = ">" -> IF followed THEN "GreaterOrEqual" ELSE "Greater"
      [] ch = "<" -> IF followed THEN "LessOrEqual" ELSE "Less"

NameType(nm) ==
    CASE nm = <<"t", "r", "u", "e">> -> "True"
      [] nm = <<"f", "a", "l", "s", "e">> -> "False"
      [] nm = <<"a", "n", "d">> -> "And"
      [] nm = <<"o", "r">> -> "Or"
      [] nm = <<"v", "a", "r">> -> "Var"
      [] nm = <<"p", "r", "i", "n", "t">> -> "Print"
      [] nm = <<"i", "f">> -> "If"
      [] nm = <<"e", "l", "s", "e">> -> "Else"
      [] nm = <<"w", "h", "i", "l", "e">> -> "While"
      [] OTHER -> "Identifier"

(* Which arm of `match c` a character takes. *)
Arm(ch) ==
    CASE ch \in SingleChars -> "single"
      [] ch = "/" -> "slash"
      [] ch \in CompareChars -> "compare"
      [] ch = "!" -> "bang"
      [] ch = "\"" -> "quote"
      [] ch = "\n" -> "newline"
      [] ch \in {" ", "\t"} -> "whitespace"
      [] IsAlphabetic(ch) -> "alphabetic"
      [] IsDigit(ch) -> "digit"
      [] OTHER -> "unexpected"

----------------------------------------------------------------------------
(* tokenize, handler by handler.                                           *)

(* while let Some(c) = self.advance() *)
LoopHead(s) ==
    LET a == Advance(s)
    IN  IF a.ret = None
        THEN [a.lex EXCEPT !.pc = "done"]
        ELSE [a.lex EXCEPT !.pc = "match", !.c = a.ret,
                           !.c_at = Len(s.source) - Len(a.lex.chars)]

MatchSingle(s) == EndRound(Push(s, SingleCharType(s.c), <<s.c>>))

MatchSlash(s) ==
    LET a == AdvanceIfEqual(s, "/")
    IN  IF a.ret
        THEN [a.lex EXCEPT !.pc = "until", !.caller = "comment",
                           !.expected = "\n", !.out = << >>]
        ELSE EndRound(Push(a.lex, "Divide", <<"/">>))

MatchCompare(s) ==
    LET a == AdvanceIfEqual(s, "=")
    IN  IF a.ret
        THEN EndRound(Push(a.lex, CompareType(s.c, TRUE), <<s.c, "=">>))
        ELSE EndRound(Push(a.lex, CompareType(s.c, FALSE), <<s.c>>))

MatchBang(s) ==
    LET a == AdvanceIfEqual(s, "=")
    IN  IF a.ret
        THEN EndRound(Push(a.lex, "NotEquals", <<"!", "=">>))
        ELSE EndRound(Push(a.lex, "BooleanNot", <<"!">>))

MatchQuote(s) ==
    [s EXCEPT !.pc = "until", !.caller = "string", !.expected = "\"",
              !.out = << >>]

MatchNewline(s) == EndRound(s)

MatchWhitespace_Reports(s) ==
    EndRound(Eprintln(s, [ msg |-> "unexpected char", line |-> s.line,
                           column |-> s.column ]))

MatchWhitespace(s) == EndRound(s)

(* The identifier arm scanning with is_alphabetic. *)
MatchAlphabetic_LettersOnly(s) ==
    [s EXCEPT !.name = <<s.c>>, !.pc = "while", !.caller = "name",
              !.pred = "is_alphabetic", !.out = << >>]

MatchAlphabetic(s) ==
    [s EXCEPT !.name = <<s.c>>, !.pc = "while", !.caller = "name",
              !.pred = "is_alphanumeric", !.out = << >>]

MatchDigit(s) ==
    [s EXCEPT !.number = <<s.c>>, !.pc = "while", !.caller = "int",
              !.pred = "is_digit", !.out = << >>]

(* The last arm returning from tokenize at the first unexpected character. *)
MatchUnexpected_Aborts(s) ==
    [Eprintln(s, [ msg |-> "unexpected char", line |-> s.line,
                   column |-> s.column, c |-> s.c ]) EXCEPT !.pc = "done"]

MatchUnexpected(s) ==
    EndRound(Eprintln(s, [ msg |-> "unexpected char", line |-> s.line,
                           column |-> s.column, c |-> s.c ]))

(* advance_until_equal pushing the delimiter before it breaks. *)
UntilStep_KeepsDelimiter(s) ==
    LET a == Advance(s)
    IN  CASE a.ret = None -> [a.lex EXCEPT !.pc = "until_ret", !.ok = FALSE]
          [] a.ret = s.expected ->
                [a.lex EXCEPT !.pc = "until_ret", !.ok = TRUE,
                              !.out = Append(@, a.ret)]
          [] OTHER -> [a.lex EXCEPT !.out = Append(@, a.ret)]

(* advance_until_equal stopping in front of the delimiter. *)
UntilStep_LeavesDelimiter(s) ==
    IF Peek(s) # None /\ Peek(s) = s.expected
    THEN [s EXCEPT !.pc = "until_ret", !.ok = TRUE]
    ELSE LET a == Advance(s)
         IN  IF a.ret = None
             THEN [a.lex EXCEPT !.pc = "until_ret", !.ok = FALSE]
             ELSE [a.lex EXCEPT !.out = Append(@, a.ret)]

(* One round of the loop of advance_until_equal. *)
UntilStep(s) ==
    LET a == Advance(s)
    IN  CASE a.ret = None -> [a.lex EXCEPT !.pc = "until_ret", !.ok = FALSE]
          [] a.ret = s.expected ->
                [a.lex EXCEPT !.pc = "until_ret", !.ok = TRUE]
          [] OTHER -> [a.lex EXCEPT !.out = Append(@, a.ret)]

CommentEnd_ReportsUnterminated(s) ==
    IF s.ok
    THEN EndRound(s)
    ELSE EndRound(Eprintln(s, [ msg |-> "unterminated comment",
                                line |-> s.line, column |-> s.column ]))

(* let _ = self.advance_until_equal('\n') *)
CommentEnd(s) == EndRound(s)

StringEnd(s) ==
    IF s.ok
    THEN EndRound(Push(s, "String", s.out))
    ELSE EndRound(Eprintln(s, [ msg |-> "unterminated string sequence",
                                line |-> s.line, column |-> s.column ]))

WhileStep_NoAdvance(s) ==
    IF Peek(s) = None \/ ~Matches(s.pred, Peek(s))
    THEN [s EXCEPT !.pc = "while_ret"]
    ELSE [s EXCEPT !.out = Append(@, Peek(s))]

(* advance_while_matching consuming the character that ends the run. *)
WhileStep_ConsumesStopper(s) ==
    IF Peek(s) = None
    THEN [s EXCEPT !.pc = "while_ret"]
    ELSE LET a == Advance(s)
         IN  IF ~Matches(s.pred, a.ret)
             THEN [a.lex EXCEPT !.pc = "while_ret"]
             ELSE [a.lex EXCEPT !.out = Append(@, a.ret)]

(* One round of the loop of advance_while_matching. *)
WhileStep(s) ==
    IF Peek(s) = None \/ ~Matches(s.pred, Peek(s))
    THEN [s EXCEPT !.pc = "while_ret"]
    ELSE LET a == Advance(s)
         IN  [a.lex EXCEPT !.out = Append(@, a.ret)]

NameEnd(s) ==
    LET nm == s.name \o s.out
    IN  EndRound(Push(s, NameType(nm), nm))

(* The number arm with `number.push('.')` left out. *)
IntEnd_DropsDot(s) ==
    LET num == s.number \o s.out
        a == AdvanceIfEqual(s, ".")
    IN  IF a.ret
        THEN [a.lex EXCEPT !.number = num, !.pc = "while",
                           !.caller = "frac", !.pred = "is_digit",
                           !.out = << >>]
        ELSE EndRound(Push(a.lex, "Number", num))

IntEnd(s) ==
    LET num == s.number \o s.out
        a == AdvanceIfEqual(s, ".")
    IN  IF a.ret
        THEN [a.lex EXCEPT !.number = Append(num, "."), !.pc = "while",
                           !.caller = "frac", !.pred = "is_digit",
                           !.out = << >>]
        ELSE EndRound(Push(a.lex, "Number", num))

FracEnd(s) == EndRound(Push(s, "Number", s.number \o s.out))

(* The handler that runs next in state s. *)
Step(s) ==
    CASE s.pc = "loop" -> LoopHead(s)
      [] s.pc = "match" /\ Arm(s.c) = "single" -> MatchSingle(s)
      [] s.pc = "match" /\ Arm(s.c) = "slash" -> MatchSlash(s)
      [] s.pc = "match" /\ Arm(s.c) = "compare" -> MatchCompare(s)
      [] s.pc = "match" /\ Arm(s.c) = "bang" -> MatchBang(s)
      [] s.pc = "match" /\ Arm(s.c) = "quote" -> MatchQuote(s)
      [] s.pc = "match" /\ Arm(s.c) = "newline" -> MatchNewline(s)
      [] s.pc = "match" /\ Arm(s.c) = "whitespace" -> MatchWhitespace(s)
      [] s.pc = "match" /\ Arm(s.c) = "alphabetic" -> MatchAlphabetic(s)
      [] s.pc = "match" /\ Arm(s.c) = "digit" -> MatchDigit(s)
      [] s.pc = "match" /\ Arm(s.c) = "unexpected" -> MatchUnexpected(s)
      [] s.pc = "until" -> UntilStep(s)
      [] s.pc = "until_ret" /\ s.caller = "comment" -> CommentEnd(s)
      [] s.pc = "until_ret" /\ s.caller = "string" -> StringEnd(s)
      [] s.pc = "while" -> WhileStep(s)
      [] s.pc = "while_ret" /\ s.caller = "name" -> NameEnd(s)
      [] s.pc = "while_ret" /\ s.caller = "int" -> IntEnd(s)
      [] s.pc = "while_ret" /\ s.caller = "frac" -> FracEnd(s)
      [] OTHER -> s

RECURSIVE RunToEnd(_)
RunToEnd(s) == IF s.pc = "done" THEN s ELSE RunToEnd(Step(s))

(* What one call of tokenize on a new lexer over src returns. *)
Tokenize(src) == RunToEnd(NewLexer(src)).tokens

----------------------------------------------------------------------------
(* The actions.                                                            *)

Starts(s) ==
    /\ source = s.source
    /\ chars = s.chars
    /\ line = s.line
    /\ column = s.column
    /\ pc = s.pc
    /\ c = s.c
    /\ tokens = s.tokens
    /\ stderr = s.stderr
    /\ caller = s.caller
    /\ expected = s.expected
    /\ pred = s.pred
    /\ out = s.out
    /\ ok = s.ok
    /\ name = s.name
    /\ number = s.number
    /\ eof_hits = s.eof_hits
    /\ c_at = s.c_at
    /\ starts = s.starts

Init ==
    /\ \E src \in Sources : Starts(NewLexer(src))
    /\ StackIdle /\ TreeIdle /\ BracketsIdle

TokenizeLoop == pc = "loop" /\ Becomes(LoopHead(St))

Single == pc = "match" /\ Arm(c) = "single" /\ Becomes(MatchSingle(St))

Slash == pc = "match" /\ Arm(c) = "slash" /\ Becomes(MatchSlash(St))

Compare == pc = "match" /\ Arm(c) = "compare" /\ Becomes(MatchCompare(St))

Bang == pc = "match" /\ Arm(c) = "bang" /\ Becomes(MatchBang(St))

Quote == pc = "match" /\ Arm(c) = "quote" /\ Becomes(MatchQuote(St))

Newline == pc = "match" /\ Arm(c) = "newline" /\ Becomes(MatchNewline(St))

Whitespace ==
    pc = "match" /\ Arm(c) = "whitespace" /\ Becomes(MatchWhitespace(St))

Alphabetic ==
    pc = "match" /\ Arm(c) = "alphabetic" /\ Becomes(MatchAlphabetic(St))

Digit == pc = "match" /\ Arm(c) = "digit" /\ Becomes(MatchDigit(St))

Unexpected ==
    pc = "match" /\ Arm(c) = "unexpected" /\ Becomes(MatchUnexpected(St))

AdvanceUntilEqual == pc = "until" /\ Becomes(UntilStep(St))

Comment == pc = "until_ret" /\ caller = "comment" /\ Becomes(CommentEnd(St))

String == pc = "until_ret" /\ caller = "string" /\ Becomes(StringEnd(St))

AdvanceWhileMatching == pc = "while" /\ Becomes(WhileStep(St))

Name == pc = "while_ret" /\ caller = "name" /\ Becomes(NameEnd(St))

IntegerPart == pc = "while_ret" /\ caller = "int" /\ Becomes(IntEnd(St))

FractionPart == pc = "while_ret" /\ caller = "frac" /\ Becomes(FracEnd(St))

Next ==
    \/ TokenizeLoop
    \/ Single
    \/ Slash
    \/ Compare
    \/ Bang
    \/ Quote
    \/ Newline
    \/ Whitespace
    \/ Alphabetic
    \/ Digit
    \/ Unexpected
    \/ AdvanceUntilEqual
    \/ Comment
    \/ String
    \/ AdvanceWhileMatching
    \/ Name
    \/ IntegerPart
    \/ FractionPart

Spec == Init /\ [][Next]_vars

(* tokenize runs on one thread, and nothing but its own return stops it:   *)
(* as long as a step is possible, a step is taken.                         *)
FairSpec == Spec /\ WF_vars(Next)

----------------------------------------------------------------------------
(* The cursor primitives called one by one on a fresh lexer, as the unit   *)
(* tests call them: pc is "test", caller names the primitive called last,  *)
(* expected holds its argument, and c or ok what it returned.              *)

MaxEofCalls == 2

PrimAlphabet == {"f", "o", "3", "|", "\n"}

PrimSamples ==
    { <<"f", "o", "o">>,
      <<"a", "b", "\n", "a">>,
      <<"a", "b", "c", "|", "d", "e", "f">>,
      <<"a", "b", "c", "|">>,
      <<"a", "b", "c">>,
      <<"a", "b", "c", "1", "2", "3", "d", "e", "f">>,
      <<"-", "0", "a", "b", "c", "1", "2", "3", "d", "e", "f">> }

PrimSources ==
    UNION {[1..n -> PrimAlphabet] : n \in 0..MaxLen} \cup PrimSamples

PrimInit ==
    /\ \E src \in PrimSources :
          Starts([NewLexer(src) EXCEPT !.pc = "test"])
    /\ StackIdle /\ TreeIdle /\ BracketsIdle

(* The lexer after a call, with what the test holds of the call: its name, *)
(* its argument (expected or pred) and what it returned (c, out or ok).    *)
Called(lex, fn, arg, ret) ==
    [lex EXCEPT !.pc = "test", !.caller = fn,
                !.expected = IF fn \in {"advance_if_equal",
                                        "advance_until_equal"}
                             THEN arg ELSE None,
                !.pred = IF fn = "advance_while_matching"
                         THEN arg ELSE None,
                !.c = IF fn \in {"peek", "advance"} THEN ret ELSE None,
                !.ok = IF fn = "advance_if_equal" THEN ret
                       ELSE IF fn = "advance_until_equal" THEN lex.ok
                       ELSE TRUE,
                !.out = IF fn \in {"advance_until_equal",
                                   "advance_while_matching"}
                        THEN lex.out ELSE << >>]

(* lex.peek() *)
CallPeek ==
    /\ pc = "test"
    /\ Becomes(Called(St, "peek", None, Peek(St)))

(* lex.advance(); an advance() past the end raises column without end, so  *)
(* the calls made there are capped.                                        *)
CallAdvance ==
    /\ pc = "test"
    /\ eof_hits < MaxEofCalls
    /\ LET a == Advance(St)
       IN  Becomes(Called(a.lex, "advance", None, a.ret))

(* lex.advance_if_equal(e) *)
CallAdvanceIfEqual ==
    /\ pc = "test"
    /\ \E e \in PrimAlphabet :
          LET a == AdvanceIfEqual(St, e)
          IN  Becomes(Called(a.lex, "advance_if_equal", e, a.ret))

RECURSIVE RunUntil(_)
(* The loop of advance_until_equal, run to its return. *)
RunUntil(s) == IF s.pc = "until_ret" THEN s ELSE RunUntil(UntilStep(s))

RECURSIVE RunWhile(_)
(* The loop of advance_while_matching, run to its return. *)
RunWhile(s) == IF s.pc = "while_ret" THEN s ELSE RunWhile(WhileStep(s))

(* lex.advance_until_equal(e): ok tells Ok from Err, out is the vector the *)
(* loop built (Err drops it).                                              *)
CallAdvanceUntilEqual ==
    /\ pc = "test"
    /\ eof_hits < MaxEofCalls
    /\ \E e \in PrimAlphabet :
          LET r == RunUntil([St EXCEPT !.pc = "until", !.expected = e,
                                       !.out = << >>])
          IN  Becomes(Called(r, "advance_until_equal", e, r.ok))

Predicates == {"is_alphabetic", "is_alphanumeric", "is_digit"}

(* lex.advance_while_matching(f) *)
CallAdvanceWhileMatching ==
    /\ pc = "test"
    /\ \E f \in Predicates :
          LET r == RunWhile([St EXCEPT !.pc = "while", !.pred = f,
                                       !.out = << >>])
          IN  Becomes(Called(r, "advance_while_matching", f, r.out))

PrimNext ==
    \/ CallPeek
    \/ CallAdvance
    \/ CallAdvanceIfEqual
    \/ CallAdvanceUntilEqual
    \/ CallAdvanceWhileMatching

PrimSpec == PrimInit /\ [][PrimNext]_vars

----------------------------------------------------------------------------
(* The stack of exercises/compiler/src/stack.rs: a VecDeque used at its    *)
(* front.  A stack is the sequence of its items, the front first.          *)

Stack_new == << >>

Stack_is_empty(st) == Len(st) = 0

Stack_size(st) == Len(st)

(* push with VecDeque::push_back in place of push_front. *)
Stack_push_Back(st, item) == Append(st, item)

Stack_push(st, item) == <<item>> \o st

(* peek with VecDeque::back in place of front. *)
Stack_peek_Back(st) == IF st = << >> THEN Nothing ELSE Some(st[Len(st)])

Stack_peek(st) == IF st = << >> THEN Nothing ELSE Some(Head(st))

(* pop that returns the front without removing it. *)
Stack_pop_Keeps(st) ==
    IF st = << >>
    THEN [ ret |-> Nothing, stack |-> st ]
    ELSE [ ret |-> Some(Head(st)), stack |-> st ]

Stack_pop(st) ==
    IF st = << >>
    THEN [ ret |-> Nothing, stack |-> st ]
    ELSE [ ret |-> Some(Head(st)), stack |-> Tail(st) ]

(* The lexer is not in use. *)
LexerIdle == Starts([NewLexer(<< >>) EXCEPT !.pc = "idle"])

(* The calls of the stack's tests, made in any order on a new stack.       *)
MaxPushes == 4

Items == {2, 3, 5}

StackInit ==
    /\ LexerIdle /\ TreeIdle /\ BracketsIdle
    /\ content = Stack_new
    /\ op = "new"
    /\ result = None
    /\ pushes = 0
    /\ pops = 0
    /\ live = << >>

CallPush ==
    /\ op # None
    /\ pushes < MaxPushes
    /\ \E item \in Items :
          /\ content' = Stack_push(content, item)
          /\ live' = Append(live, item)
    /\ op' = "push"
    /\ result' = None
    /\ pushes' = pushes + 1
    /\ UNCHANGED <<pops, lexer_vars, tree_vars, brackets_vars>>

CallPop ==
    /\ op # None
    /\ LET p == Stack_pop(content)
       IN  /\ content' = p.stack
           /\ result' = p.ret
           /\ pops' = IF p.ret = Nothing THEN pops ELSE pops + 1
           /\ live' = IF p.ret = Nothing THEN live
                      ELSE SubSeq(live, 1, Len(live) - 1)
    /\ op' = "pop"
    /\ UNCHANGED <<pushes, lexer_vars, tree_vars, brackets_vars>>

CallStackPeek ==
    /\ op # None
    /\ op' = "peek"
    /\ result' = Stack_peek(content)
    /\ UNCHANGED <<content, pushes, pops, live, lexer_vars, tree_vars,
                   brackets_vars>>

CallSize ==
    /\ op # None
    /\ op' = "size"
    /\ result' = Stack_size(content)
    /\ UNCHANGED <<content, pushes, pops, live, lexer_vars, tree_vars,
                   brackets_vars>>

CallIsEmpty ==
    /\ op # None
    /\ op' = "is_empty"
    /\ result' = Stack_is_empty(content)
    /\ UNCHANGED <<content, pushes, pops, live, lexer_vars, tree_vars,
                   brackets_vars>>

StackNext ==
    \/ CallPush
    \/ CallPop
    \/ CallStackPeek
    \/ CallSize
    \/ CallIsEmpty

StackSpec == StackInit /\ [][StackNext]_vars

----------------------------------------------------------------------------
(* The expression trees of exercises/introduction/src/tree and their       *)
(* visitor: Expression::accept walks a tree in post-order and EvalVisitor  *)
(* keeps the values on a Stack<i64>.                                       *)

IntLiteral(i) == [ kind |-> "IntLiteral", i |-> i ]

Branch(kind, left, right) ==
    [ kind |-> kind, left |-> left, right |-> right ]

MaxOps == 2

Literals == {IntLiteral(2), IntLiteral(3)}

RECURSIVE TreesWith(_, _)
(* The trees with exactly k branches, their kinds taken from kinds. *)
TreesWith(kinds, k) ==
    IF k = 0 THEN Literals
    ELSE UNION { { Branch(kind, l, r) :
                     kind \in kinds,
                     l \in TreesWith(kinds, n),
                     r \in TreesWith(kinds, k - 1 - n) } : n \in 0..(k - 1) }

(* sample_tree() of the tests: (7 + (11 + 12)) + (2 * (3 * 5)) *)
SampleTree ==
    Branch("Addition",
           Branch("Addition", IntLiteral(7),
                  Branch("Addition", IntLiteral(11), IntLiteral(12))),
           Branch("Multiplication", IntLiteral(2),
                  Branch("Multiplication", IntLiteral(3), IntLiteral(5))))

VisitedKinds == {"Addition", "Subtraction", "Multiplication"}

VisitedTrees ==
    UNION {TreesWith(VisitedKinds, k) : k \in 0..MaxOps} \cup {SampleTree}

(* self.stack.push(left <op> right), left being the value popped first. *)
Combine(kind, left, right) ==
    CASE kind = "Addition" -> left + right
      [] kind = "Subtraction" -> left - right
      [] kind = "Multiplication" -> left * right

(* EvalVisitor::visit_expression: the stack it leaves, and whether an     *)
(* unwrap met None.                                                       *)
VisitExpression(st, expr) ==
    IF expr.kind = "IntLiteral"
    THEN [ stack |-> Stack_push(st, expr.i), panicked |-> FALSE ]
    ELSE LET first == Stack_pop(st)
             second == Stack_pop(first.stack)
         IN  IF first.ret = Nothing \/ second.ret = Nothing
             THEN [ stack |-> second.stack, panicked |-> TRUE ]
             ELSE [ stack |-> Stack_push(second.stack,
                                Combine(expr.kind, first.ret[1],
                                        second.ret[1])),
                    panicked |-> FALSE ]

(* A call of accept: its expression, how far it has come ("enter",        *)
(* "right" after left.accept returned, "visit" after right.accept         *)
(* returned), and the size of the stack when it was called.               *)
Frame(expr, stage, base) ==
    [ expr |-> expr, stage |-> stage, base |-> base ]

VisitorInit ==
    /\ LexerIdle /\ BracketsIdle
    /\ \E root \in VisitedTrees :
          /\ tree = root
          /\ frames = <<Frame(root, "enter", 0)>>
    /\ content = Stack_new
    /\ op = "accept"
    /\ result = None
    /\ pushes = 0 /\ pops = 0 /\ live = << >>

(* visitor.visit_expression(self), and the return of the accept call. *)
VisitAndReturn ==
    LET v == VisitExpression(content, Head(frames).expr)
    IN  /\ content' = v.stack
        /\ op' = IF v.panicked THEN "panic" ELSE op
        /\ frames' = IF v.panicked THEN << >> ELSE Tail(frames)
        /\ UNCHANGED <<result, pushes, pops, live, tree, lexer_vars,
                       brackets_vars>>

AcceptLiteral ==
    /\ op = "accept" /\ frames # << >>
    /\ Head(frames).stage = "enter"
    /\ Head(frames).expr.kind = "IntLiteral"
    /\ VisitAndReturn

(* left.accept(visitor) *)
AcceptLeft ==
    /\ op = "accept" /\ frames # << >>
    /\ Head(frames).stage = "enter"
    /\ Head(frames).expr.kind # "IntLiteral"
    /\ frames' = <<Frame(Head(frames).expr.left, "enter",
                         Stack_size(content)),
                   [Head(frames) EXCEPT !.stage = "right"]>>
                 \o Tail(frames)
    /\ UNCHANGED <<stack_vars, tree, lexer_vars, brackets_vars>>

(* accept with right.accept(visitor) left out. *)
AcceptRight_SkipsSubtree ==
    /\ op = "accept" /\ frames # << >>
    /\ Head(frames).stage = "right"
    /\ frames' = <<[Head(frames) EXCEPT !.stage = "visit"]>> \o Tail(frames)
    /\ UNCHANGED <<stack_vars, tree, lexer_vars, brackets_vars>>

(* right.accept(visitor) *)
AcceptRight ==
    /\ op = "accept" /\ frames # << >>
    /\ Head(frames).stage = "right"
    /\ frames' = <<Frame(Head(frames).expr.right, "enter",
                         Stack_size(content)),
                   [Head(frames) EXCEPT !.stage = "visit"]>>
                 \o Tail(frames)
    /\ UNCHANGED <<stack_vars, tree, lexer_vars, brackets_vars>>

AcceptBranch ==
    /\ op = "accept" /\ frames # << >>
    /\ Head(frames).stage = "visit"
    /\ VisitAndReturn

(* visitor.result(), called when tree.root.accept has returned. *)
CallResult ==
    /\ op = "accept" /\ frames = << >>
    /\ LET p == Stack_pop(content)
       IN  /\ content' = p.stack
           /\ IF p.ret = Nothing
              THEN op' = "panic" /\ result' = None
              ELSE op' = "result" /\ result' = p.ret[1]
    /\ UNCHANGED <<pushes, pops, live, tree_vars, lexer_vars,
                   brackets_vars>>

VisitorNext ==
    \/ AcceptLiteral
    \/ AcceptLeft
    \/ AcceptRight
    \/ AcceptBranch
    \/ CallResult

VisitorSpec == VisitorInit /\ [][VisitorNext]_vars

----------------------------------------------------------------------------
(* is_balanced of exercises/introduction/src/brackets.rs: one action for   *)
(* each round of its for loop and one for the return after the loop.       *)

MaxText == 4

Openings == {"[", "{", "(", "<"}

Closings == {"]", "}", ")", ">"}

BracketAlphabet == Openings \cup Closings \cup {"h"}

(* The arguments of test_is_balanced. *)
BracketSamples ==
    { <<"(", "h", "e", "l", "l", "o", ")", " ",
        "(", "w", "o", "r", "l", "d", ")">>,
      <<"(", "<", "{", "(", ")", "}", ">", ")", "[", "]">>,
      <<"s", "t", "a", "t", "i", "c", " ", "p", "u", "b", "l", "i", "c", " ",
        "v", "o", "i", "d", " ", "m", "a", "i", "n", "(", "S", "t", "r", "i",
        "n", "g", " ", "a", "r", "g", "s", "[", "]", ")", " ", "{">>,
      <<"(", "<", "{", "(", ")", ">", ")", "[", "}", "]">> }

BracketTexts ==
    UNION {[1..n -> BracketAlphabet] : n \in 0..MaxText} \cup BracketSamples

(* The condition of the if, with the test of '>' left out. *)
Mismatch_IgnoresChevron(chr, opening) ==
    \/ (chr = "]" /\ opening # "[")
    \/ (chr = "}" /\ opening # "{")
    \/ (chr = ")" /\ opening # "(")

Mismatch(chr, opening) ==
    \/ (chr = "]" /\ opening # "[")
    \/ (chr = "}" /\ opening # "{")
    \/ (chr = ")" /\ opening # "(")
    \/ (chr = ">" /\ opening # "<")

BracketsInit ==
    /\ LexerIdle /\ TreeIdle
    /\ \E txt \in BracketTexts : input = txt /\ rest = txt
    /\ content = Stack_new
    /\ op = "is_balanced"
    /\ result = None
    /\ pushes = 0 /\ pops = 0 /\ live = << >>

(* '[' | '{' | '(' | '<' => stack.push(chr) *)
ForOpening ==
    /\ op = "is_balanced" /\ rest # << >>
    /\ Head(rest) \in Openings
    /\ content' = Stack_push(content, Head(rest))
    /\ rest' = Tail(rest)
    /\ UNCHANGED <<op, result, pushes, pops, live, input, lexer_vars,
                   tree_vars>>

(* ']' | '}' | ')' | '>' => match stack.pop() *)
ForClosing ==
    /\ op = "is_balanced" /\ rest # << >>
    /\ Head(rest) \in Closings
    /\ LET p == Stack_pop(content)
       IN  /\ content' = p.stack
           /\ IF p.ret = Nothing \/ Mismatch(Head(rest), p.ret[1])
              THEN op' = "returned" /\ result' = FALSE
              ELSE UNCHANGED <<op, result>>
    /\ rest' = Tail(rest)
    /\ UNCHANGED <<pushes, pops, live, input, lexer_vars, tree_vars>>

(* _ => {} *)
ForOther ==
    /\ op = "is_balanced" /\ rest # << >>
    /\ Head(rest) \notin Openings \cup Closings
    /\ rest' = Tail(rest)
    /\ UNCHANGED <<stack_vars, input, lexer_vars, tree_vars>>

(* stack.is_empty() after the loop *)
ReturnIsEmpty ==
    /\ op = "is_balanced" /\ rest = << >>
    /\ op' = "returned"
    /\ result' = Stack_is_empty(content)
    /\ UNCHANGED <<content, pushes, pops, live, brackets_vars, lexer_vars,
                   tree_vars>>

BracketsNext ==
    \/ ForOpening
    \/ ForClosing
    \/ ForOther
    \/ ReturnIsEmpty

BracketsSpec == BracketsInit /\ [][BracketsNext]_vars

----------------------------------------------------------------------------
(* The expression tree of exercises/compiler/src/tree.rs and its two       *)
(* evaluators: the method Tree::eval and the function eval.                *)

Tree(root) == [ root |-> root ]

EvaluatedKinds == {"Addition", "Multiplication"}

EvaluatedTrees ==
    { Tree(e) : e \in UNION {TreesWith(EvaluatedKinds, k) : k \in 0..MaxOps}
                      \cup {SampleTree} }

RECURSIVE Expression_eval(_)
Expression_eval(e) ==
    CASE e.kind = "IntLiteral" -> e.i
      [] e.kind = "Addition" ->
            Expression_eval(e.left) + Expression_eval(e.right)
      [] e.kind = "Multiplication" ->
            Expression_eval(e.left) * Expression_eval(e.right)

Tree_eval(tr) == Expression_eval(tr.root)

RECURSIVE eval_recursive_AddsOnly(_)
(* eval_recursive with '+' in place of '*'. *)
eval_recursive_AddsOnly(e) ==
    CASE e.kind = "IntLiteral" -> e.i
      [] e.kind = "Addition" ->
            eval_recursive_AddsOnly(e.left) + eval_recursive_AddsOnly(e.right)
      [] e.kind = "Multiplication" ->
            eval_recursive_AddsOnly(e.left) + eval_recursive_AddsOnly(e.right)

RECURSIVE eval_recursive(_)
eval_recursive(e) ==
    CASE e.kind = "IntLiteral" -> e.i
      [] e.kind = "Addition" -> eval_recursive(e.left) + eval_recursive(e.right)
      [] e.kind = "Multiplication" ->
            eval_recursive(e.left) * eval_recursive(e.right)

eval(tr) == eval_recursive(tr.root)

EvalInit ==
    /\ LexerIdle /\ BracketsIdle
    /\ tree \in EvaluatedTrees
    /\ frames = << >>
    /\ content = << >>
    /\ op = "new"
    /\ result = None
    /\ pushes = 0 /\ pops = 0 /\ live = << >>

(* tree.eval() *)
CallTreeEval ==
    /\ op \in {"new", "eval"}
    /\ op' = "Tree::eval"
    /\ result' = Tree_eval(tree)
    /\ UNCHANGED <<content, pushes, pops, live, tree_vars, lexer_vars,
                   brackets_vars>>

(* eval(&tree) *)
CallEval ==
    /\ op \in {"new", "Tree::eval"}
    /\ op' = "eval"
    /\ result' = eval(tree)
    /\ UNCHANGED <<content, pushes, pops, live, tree_vars, lexer_vars,
                   brackets_vars>>

EvalNext ==
    \/ CallTreeEval
    \/ CallEval

EvalSpec == EvalInit /\ [][EvalNext]_vars

----------------------------------------------------------------------------
(* Positions in the source text, for the statements below: the line and    *)
(* the column of a text of which the first k characters have been read.    *)

Consumed == Len(source) - Len(chars)

NewlinesIn(seq) == Cardinality({i \in 1..Len(seq) : seq[i] = "\n"})

LastNewline(seq) ==
    LET at == {i \in 1..Len(seq) : seq[i] = "\n"}
    IN  IF at = {} THEN 0 ELSE CHOOSE i \in at : \A j \in at : j <= i

CharsSinceNewline(seq) == Len(seq) - LastNewline(seq)

PositionAfter(src, k) ==
    [ line |-> 1 + NewlinesIn(SubSeq(src, 1, k)),
      column |-> CharsSinceNewline(SubSeq(src, 1, k)) ]

IsUnexpectedReport(e) == e.msg = "unexpected char"

(* The places of the source whose character a diagnostic reports. *)
ReportedAt(src, errs) ==
    { k \in 1..Len(src) :
        \E i \in 1..Len(errs) :
            /\ IsUnexpectedReport(errs[i])
            /\ errs[i].line = PositionAfter(src, k).line
            /\ errs[i].column = PositionAfter(src, k).column }

Blanked(src, at) == [i \in 1..Len(src) |-> IF i \in at THEN " " ELSE src[i]]

StartsNoToken(ch) ==
    ch \notin {"+", "-", "*", "/", "=", ">", "<", "!", ";", "(", ")", "{",
               "}", "\"", " ", "\t", "\n"} \cup Letters \cup Digits

----------------------------------------------------------------------------
(* C1: a character that starts no token never aborts tokenize: when        *)
(* tokenize returns, every reported character is one that starts no token, *)
(* the whole input has been read, and the tokens are those tokenize gives  *)
(* for the same input with each reported character replaced by a space.    *)
C1_BadCharIsSkipped ==
    pc = "done" =>
        LET at == ReportedAt(source, stderr)
        IN  /\ \A k \in at : StartsNoToken(source[k])
            /\ chars = << >>
            /\ tokens = Tokenize(Blanked(source, at))

C1_Witness ==
    /\ pc = "done"
    /\ source = <<"i", "#", "3">>
    /\ ReportedAt(source, stderr) = {2}
    /\ tokens = << Token("Identifier", <<"i">>, 1), Token("Number", <<"3">>, 1) >>

----------------------------------------------------------------------------
(* What the caller of tokenize receives (`return tokens`): the tokens, and *)
(* no error value.                                                         *)
Returned(s) == [ tokens |-> s.tokens ]

(* The error values that the diagnostics written so far stand for. *)
ErrorOf(e) ==
    [ kind |-> "UnexpectedChar",
      position |-> [ line |-> e.line, column |-> e.column ],
      c |-> e.c ]

RECURSIVE ErrorsOf(_)
ErrorsOf(errs) ==
    IF errs = << >> THEN << >>
    ELSE IF IsUnexpectedReport(Head(errs))
         THEN <<ErrorOf(Head(errs))>> \o ErrorsOf(Tail(errs))
         ELSE ErrorsOf(Tail(errs))

(* C2: one tokenize call returns the tokens and the lexical errors: every  *)
(* unexpected character met contributes one UnexpectedChar error value,    *)
(* with the character and its position, in source order, to what the       *)
(* caller receives.                                                        *)
C2_ErrorsAreReturned ==
    (pc = "done" /\ ErrorsOf(stderr) # << >>) =>
        /\ "errors" \in DOMAIN Returned(St)
        /\ Returned(St).errors = ErrorsOf(stderr)

----------------------------------------------------------------------------
(* C3: a '!' that is not followed by '=' gives no token and is reported as *)
(* an unexpected character at its position; a '!' followed by '=' gives    *)
(* the token NotEquals.                                                    *)
C3_BareBangIsAnError ==
    [][ (pc = "match" /\ c = "!") =>
            IF Peek(St) = "="
            THEN tokens' = Append(tokens, Token("NotEquals", <<"!", "=">>, line))
            ELSE /\ tokens' = tokens
                 /\ stderr' = Append(stderr,
                        [ msg |-> "unexpected char", line |-> line,
                          column |-> column, c |-> "!" ]) ]_vars

----------------------------------------------------------------------------
(* C4: an opening quote with no closing quote before the end of the input  *)
(* adds no token, keeps the tokens pushed before it, and reports exactly   *)
(* one UnterminatedStringSequence error whose starts_at is the position of *)
(* the opening quote and whose ends_at is the end of the input.            *)
C4_UnterminatedStringReport ==
    [][ (pc = "until_ret" /\ caller = "string" /\ ~ok) =>
            /\ tokens' = tokens
            /\ stderr' = Append(stderr,
                   [ msg |-> "unterminated string sequence",
                     starts_at |-> PositionAfter(source, Consumed - Len(out)),
                     ends_at |-> PositionAfter(source, Consumed) ]) ]_vars

----------------------------------------------------------------------------
(* C5: for an input that is a quote, a body without a quote, and a quote,  *)
(* tokenize returns exactly one token, a String whose lexeme is the body   *)
(* (empty for an empty body), and reports no error.                        *)
IsQuotedBody(src) ==
    /\ Len(src) >= 2
    /\ src[1] = "\""
    /\ src[Len(src)] = "\""
    /\ \A i \in 2..(Len(src) - 1) : src[i] # "\""

C5_QuotedBodyIsOneString ==
    (pc = "done" /\ IsQuotedBody(source)) =>
        /\ Len(tokens) = 1
        /\ tokens[1].token_type = "String"
        /\ tokens[1].lexeme = SubSeq(source, 2, Len(source) - 1)
        /\ stderr = << >>

C5_Witness ==
    /\ pc = "done"
    /\ source = <<"\"", "H", "e", "l", "l", "o", " ", "w", "o", "r", "l", "d", "\"">>
    /\ tokens = << Token("String",
                     <<"H", "e", "l", "l", "o", " ", "w", "o", "r", "l", "d">>, 1) >>

----------------------------------------------------------------------------
(* C6: maximal munch on the two-character operators: when '=', '>', '<' or *)
(* '!' is followed by '=', exactly one two-character token is pushed and   *)
(* the '=' is consumed; when '=', '>' or '<' is not followed by '=',       *)
(* exactly one one-character token is pushed and nothing more is consumed. *)
TwoCharOperator(ch) ==
    CASE ch = "=" -> "DoubleEquals"
      [] ch = ">" -> "GreaterOrEqual"
      [] ch = "<" -> "LessOrEqual"
      [] ch = "!" -> "NotEquals"

OneCharOperator(ch) ==
    CASE ch = "=" -> "Equals"
      [] ch = ">" -> "Greater"
      [] ch = "<" -> "Less"

C6_MaximalMunch ==
    [][ (pc = "match" /\ c \in {"=", ">", "<", "!"}) =>
            IF Peek(St) = "="
            THEN /\ tokens' = Append(tokens,
                        Token(TwoCharOperator(c), <<c, "=">>, line))
                 /\ chars' = Tail(chars)
                 /\ pc' = "loop"
            ELSE c # "!" =>
                    /\ tokens' = Append(tokens,
                           Token(OneCharOperator(c), <<c>>, line))
                    /\ chars' = chars
                    /\ pc' = "loop" ]_vars

C6_Witness ==
    /\ pc = "done"
    /\ source = <<"<", "=", "=">>
    /\ tokens = << Token("LessOrEqual", <<"<", "=">>, 1),
                   Token("Equals", <<"=">>, 1) >>

----------------------------------------------------------------------------
(* C7: when the dispatch loop meets an alphabetic character, the run of    *)
(* alphanumeric characters from there to the first character that is not   *)
(* alphanumeric gives exactly one token: the keyword token when the whole  *)
(* run is a keyword, and otherwise an Identifier whose lexeme is the whole *)
(* run.                                                                    *)
KeywordTable ==
    { << <<"t", "r", "u", "e">>, "True" >>,
      << <<"f", "a", "l", "s", "e">>, "False" >>,
      << <<"a", "n", "d">>, "And" >>,
      << <<"o", "r">>, "Or" >>,
      << <<"v", "a", "r">>, "Var" >>,
      << <<"p", "r", "i", "n", "t">>, "Print" >>,
      << <<"i", "f">>, "If" >>,
      << <<"e", "l", "s", "e">>, "Else" >>,
      << <<"w", "h", "i", "l", "e">>, "While" >> }

TypeOfRun(run) ==
    IF \E k \in KeywordTable : k[1] = run
    THEN (CHOOSE k \in KeywordTable : k[1] = run)[2]
    ELSE "Identifier"

C7_NameIsOneToken ==
    [][ /\ (pc = "match" /\ IsAlphabetic(c)) => tokens' = tokens
        /\ (pc = "while" /\ caller = "name") => tokens' = tokens
        /\ (pc = "while_ret" /\ caller = "name") =>
              LET first == Consumed - Len(out)
                  run == SubSeq(source, first, Consumed)
              IN  /\ IsAlphabetic(source[first])
                  /\ \A i \in 1..Len(run) : IsAlphanumeric(run[i])
                  /\ chars = << >> \/ ~IsAlphanumeric(Head(chars))
                  /\ tokens' = Append(tokens, Token(TypeOfRun(run), run, line))
                  /\ pc' = "loop" ]_vars

C7_Witness ==
    /\ pc = "done"
    /\ source = <<"i", "f", "3", "2">>
    /\ tokens = << Token("Identifier", <<"i", "f", "3", "2">>, 1) >>

----------------------------------------------------------------------------
(* C8: a decimal digit met by the dispatch loop starts exactly one Number  *)
(* token, whose lexeme is the longest run of digits from there and then,   *)
(* if a '.' follows, that '.' and the longest run of digits after it; a    *)
(* second '.' is not part of the lexeme and gives no token ("123." gives   *)
(* Number "123.", "123.456." gives the one token Number "123.456").        *)
AllDigits(seq) == \A i \in 1..Len(seq) : IsDigit(seq[i])

IsNumberLexeme(lex) ==
    \E d \in 1..Len(lex) :
        /\ AllDigits(SubSeq(lex, 1, d))
        /\ \/ d = Len(lex)
           \/ /\ lex[d + 1] = "."
              /\ AllDigits(SubSeq(lex, d + 2, Len(lex)))

HasDot(lex) == \E i \in 1..Len(lex) : lex[i] = "."

C8_NumberIsOneToken ==
    [][ /\ (pc = "match" /\ IsDigit(c)) => tokens' = tokens
        /\ (pc = "while" /\ caller \in {"int", "frac"}) => tokens' = tokens
        /\ (pc = "while_ret" /\ caller = "int" /\ Peek(St) = ".") =>
              tokens' = tokens /\ chars' = Tail(chars)
        /\ (pc = "while_ret" /\ (caller = "frac"
                                 \/ (caller = "int" /\ Peek(St) # "."))) =>
              LET first == Consumed - Len(number) - Len(out) + 1
                  lex == SubSeq(source, first, Consumed)
              IN  /\ IsNumberLexeme(lex)
                  /\ HasDot(lex) <=> caller = "frac"
                  /\ chars = << >> \/ ~IsDigit(Head(chars))
                  /\ tokens' = Append(tokens, Token("Number", lex, line))
                  /\ chars' = chars
                  /\ pc' = "loop"
        /\ (pc = "match" /\ c = ".") => tokens' = tokens
        /\ (pc' = "done" /\ source = <<"1", "2", "3", ".">>) =>
              tokens' = << Token("Number", <<"1", "2", "3", ".">>, 1) >>
        /\ (pc' = "done"
            /\ source = <<"1", "2", "3", ".", "4", "5", "6", ".">>) =>
              tokens' = << Token("Number",
                             <<"1", "2", "3", ".", "4", "5", "6">>, 1) >>
      ]_vars

C8_Witness ==
    /\ pc = "done"
    /\ source = <<"1", "2", "3", ".", "4", "5", "6", ".">>
    /\ tokens = << Token("Number", <<"1", "2", "3", ".", "4", "5", "6">>, 1) >>
    /\ Len(stderr) = 1

----------------------------------------------------------------------------
(* C9, as claimed: in every state of a scan, also after the end of the     *)
(* input has been hit and after tokenize returns, column is the number of  *)
(* characters consumed since the last consumed newline.                    *)
C9_ColumnCountsCharacters ==
    column = CharsSinceNewline(SubSeq(source, 1, Consumed))

(* C9, amended: column is that number plus the number of advance() calls   *)
(* that found the input exhausted; the two are equal while input is left,  *)
(* and differ by one or two when tokenize returns (7, not 6, for           *)
(* "a = 1;\nb = 2;").                                                      *)
C9_ColumnCountsAdvances ==
    /\ column = CharsSinceNewline(SubSeq(source, 1, Consumed)) + eof_hits
    /\ chars # << >> => eof_hits = 0
    /\ pc = "done" => eof_hits \in {1, 2}
    /\ (pc = "done"
        /\ source = <<"a", " ", "=", " ", "1", ";", "\n",
                      "b", " ", "=", " ", "2", ";">>) =>
            line = 2 /\ column = 7

C9_Witness ==
    /\ pc = "done"
    /\ source = <<"a", " ", "=", " ", "1", ";", "\n",
                  "b", " ", "=", " ", "2", ";">>
    /\ column = 7
    /\ eof_hits = 1

----------------------------------------------------------------------------
(* C10: in every state of a scan, line is 1 plus the number of newline     *)
(* characters consumed so far, whether a newline was consumed by the       *)
(* dispatch loop, in a line comment or in a string body; line never        *)
(* decreases.                                                              *)
C10_LineCountsNewlines ==
    /\ [](line = 1 + NewlinesIn(SubSeq(source, 1, Consumed)))
    /\ [][line' >= line]_vars

C10_Witness ==
    /\ pc = "until"
    /\ caller = "string"
    /\ out = <<"a", "\n">>
    /\ line = 2

----------------------------------------------------------------------------
(* C11: every token carries as its line the line in effect when its first  *)
(* character was consumed, whatever its kind, also a String token whose    *)
(* body holds newline characters.                                          *)
C11_TokenLineIsStartLine ==
    \A i \in 1..Len(tokens) :
        tokens[i].line = PositionAfter(source, starts[i]).line

----------------------------------------------------------------------------
InComment == pc \in {"until", "until_ret"} /\ caller = "comment"

OpensComment == pc = "match" /\ c = "/" /\ Peek(St) = "/"

CommentSample ==
    <<"/", "/", " ", "T", "h", "i", "s", " ", "i", "s", " ", "a", " ", "c",
      "o", "m", "m", "e", "n", "t", "\n", "1">>

(* C12: a line comment yields no token and no diagnostic. No step of a     *)
(* comment, from the second '/' to the return of the scan, changes tokens  *)
(* or stderr; the discarded text holds no newline; when the scan found a   *)
(* newline it is the last character consumed and the lexer stands at       *)
(* column 0 of the line after the one the comment began on; when it found  *)
(* none the whole input is consumed. The text "// This is a comment\n1"    *)
(* gives the one token Number "1" on line 2.                               *)
C12_CommentIsDiscarded ==
    /\ [][OpensComment \/ InComment
            => tokens' = tokens /\ stderr' = stderr]_vars
    /\ [](pc = "until_ret" /\ caller = "comment" =>
            /\ NewlinesIn(out) = 0
            /\ out = SubSeq(source, c_at + 2, c_at + 1 + Len(out))
            /\ IF ok
               THEN /\ Consumed = c_at + 2 + Len(out)
                    /\ source[Consumed] = "\n"
                    /\ line = PositionAfter(source, c_at).line + 1
                    /\ column = 0
               ELSE /\ Consumed = c_at + 1 + Len(out)
                    /\ chars = << >>)
    /\ [](pc = "done" /\ source = CommentSample =>
            /\ tokens = <<Token("Number", <<"1">>, 2)>>
            /\ stderr = << >>)

C12_Witness ==
    /\ pc = "done"
    /\ source = CommentSample
    /\ tokens = <<Token("Number", <<"1">>, 2)>>
    /\ stderr = << >>

----------------------------------------------------------------------------
RECURSIVE IsBlankSource(_)
(* A text made only of spaces, tabs, newlines and line comments, a line    *)
(* comment being "//" and everything up to the next newline or the end.    *)
IsBlankSource(src) ==
    IF src = << >> THEN TRUE
    ELSE IF Head(src) \in {" ", "\t", "\n"} THEN IsBlankSource(Tail(src))
    ELSE IF Len(src) >= 2 /\ src[1] = "/" /\ src[2] = "/"
         THEN LET nl == {i \in 3..Len(src) : src[i] = "\n"}
              IN  IF nl = {} THEN TRUE
                  ELSE LET first == CHOOSE i \in nl : \A j \in nl : i <= j
                       IN  IsBlankSource(SubSeq(src, first + 1, Len(src)))
         ELSE FALSE

BlankSample ==
    <<" ", "\t", "\n", "/", "/", " ", "c", "\n", "\t", "/", "/", "c">>

(* C13: for every input made only of spaces, tabs, newlines and line       *)
(* comments, no state of the scan holds a token or a diagnostic, and       *)
(* tokenize returns the empty token sequence.                              *)
C13_BlankSourceGivesNothing ==
    IsBlankSource(source) =>
        /\ tokens = << >>
        /\ stderr = << >>
        /\ (pc = "done" => Returned(St).tokens = << >>)

C13_Witness ==
    /\ pc = "done"
    /\ source = BlankSample
    /\ IsBlankSource(source)
    /\ tokens = << >>
    /\ stderr = << >>

----------------------------------------------------------------------------
SingleLexemes ==
    { <<"+", "Plus">>, <<"-", "Minus">>, <<"*", "Times">>,
      <<";", "Semicolon">>, <<"(", "OpeningParentheses">>,
      <<")", "ClosingParentheses">>, <<"{", "OpeningBraces">>,
      <<"}", "ClosingBraces">> }

(* C14: for each x of + - * ; ( ) { }, tokenizing the one-character input  *)
(* x returns exactly one token, of the type that belongs to x, with lexeme *)
(* x and line 1; before the return at most that token has been pushed.     *)
C14_SingleLexemeIsOneToken ==
    \A p \in SingleLexemes :
        source = <<p[1]>> =>
            /\ tokens \in {<< >>, <<Token(p[2], <<p[1]>>, 1)>>}
            /\ (pc = "done" =>
                    Returned(St).tokens = <<Token(p[2], <<p[1]>>, 1)>>)

C14_Witness ==
    /\ pc = "done"
    /\ source = <<")">>
    /\ tokens = <<Token("ClosingParentheses", <<")">>, 1)>>

----------------------------------------------------------------------------
Rank(p) ==
    CASE p = "done" -> 0
      [] p = "loop" -> 1
      [] p \in {"until_ret", "while_ret"} -> 2
      [] p \in {"until", "while"} -> 3
      [] p = "match" -> 4

(* At the head of the dispatch loop or of a scanning primitive's loop. *)
InLoop == pc \in {"loop", "until", "while"}

(* A quantity no step of tokenize leaves as it is or raises. *)
Measure == 4 * Len(chars) + Rank(pc)

(* C15: tokenize terminates on every input. Every round of the dispatch    *)
(* loop, of advance_until_equal and of advance_while_matching consumes at  *)
(* least one character or leaves its loop; what is left of the input is    *)
(* always a suffix of it and no step gives a character back, so no more    *)
(* characters are consumed than the input holds; every step lowers a       *)
(* measure bounded by the input length; the call returns, and when it has  *)
(* returned nothing is left and peek gives None.                           *)
C15_TokenizeTerminates ==
    /\ <>(pc = "done")
    /\ [][InLoop => Len(chars') < Len(chars) \/ pc' # pc]_vars
    /\ [][Len(chars') <= Len(chars) /\ Measure' < Measure]_vars
    /\ [](chars = SubSeq(source, Consumed + 1, Len(source)))
    /\ [](Measure <= 4 * Len(source) + 1)
    /\ [](pc = "done" => chars = << >> /\ Peek(St) = None)

C15_Witness ==
    /\ pc = "done"
    /\ source = <<"1", "2", "3", ".", "4", "5", "6", ".">>
    /\ chars = << >>
    /\ Peek(St) = None
    /\ Measure = 0

----------------------------------------------------------------------------
NewlineSample ==
    <<"a", " ", "=", " ", "1", ";", "\n", "b", " ", "=", " ", "2", ";">>

(* C16: tokens are emitted in left-to-right source order. Each token       *)
(* begins at a place of the source, these places are strictly increasing   *)
(* along the token sequence, every token's lexeme (for a String, its       *)
(* opening quote) begins with the character at its place, and the line     *)
(* values along the sequence never decrease.                               *)
C16_TokensInSourceOrder ==
    /\ Len(starts) = Len(tokens)
    /\ \A i \in 1..Len(tokens) :
          /\ starts[i] \in 1..Consumed
          /\ source[starts[i]] =
                IF tokens[i].token_type = "String"
                THEN "\"" ELSE Head(tokens[i].lexeme)
    /\ \A i, j \in 1..Len(tokens) :
          i < j => /\ starts[i] < starts[j]
                   /\ tokens[i].line <= tokens[j].line

C16_Witness ==
    /\ pc = "done"
    /\ source = NewlineSample
    /\ Len(tokens) = 8
    /\ starts = <<1, 3, 5, 6, 8, 10, 12, 13>>
    /\ tokens[4].line = 1
    /\ tokens[5].line = 2

----------------------------------------------------------------------------
EndOfileAt == {i \in 1..Len(tokens) : tokens[i].token_type = "EndOfile"}

(* C18: the token sequence tokenize returns holds exactly one EndOfile     *)
(* token, as its last element.                                             *)
C18_EndOfileIsLast ==
    pc = "done" => EndOfileAt = {Len(Returned(St).tokens)} /\ tokens # << >>

----------------------------------------------------------------------------
(* C19: every token tokenize emits has a type of the TokenType enum.       *)
C19_TypesAreClosed ==
    \A i \in 1..Len(tokens) : tokens[i].token_type \in TokenTypes

----------------------------------------------------------------------------
AfterAdvanceIfEqual == pc' = "test" /\ caller' = "advance_if_equal"

(* C20: a call advance_if_equal(expected) returns true exactly when input  *)
(* is left and its next character equals expected; it then consumes that   *)
(* one character and raises column by one, line staying as it is (also     *)
(* when the character is a newline); otherwise, at a different character   *)
(* or at the end of the input, it returns false and leaves the remaining   *)
(* input, line and column as they are.                                     *)
C20_AdvanceIfEqualFrame ==
    [][AfterAdvanceIfEqual =>
          /\ ok' <=> (chars # << >> /\ Head(chars) = expected')
          /\ IF ok'
             THEN /\ chars' = Tail(chars)
                  /\ column' = column + 1
                  /\ line' = line
             ELSE /\ chars' = chars
                  /\ column' = column
                  /\ line' = line]_vars

C20_Witness ==
    /\ pc = "test"
    /\ caller = "advance_if_equal"
    /\ source = <<"f", "o", "o">>
    /\ chars = <<"o">>
    /\ expected = "o"
    /\ ok
    /\ column = 2

----------------------------------------------------------------------------
AfterAdvanceUntilEqual == pc' = "test" /\ caller' = "advance_until_equal"

(* The place of the first e in seq, 0 when there is none. *)
FirstAt(seq, e) ==
    LET at == {i \in 1..Len(seq) : seq[i] = e}
    IN  IF at = {} THEN 0 ELSE CHOOSE i \in at : \A j \in at : i <= j

(* C21: a call advance_until_equal(expected) on input in which expected    *)
(* occurs returns Ok with exactly the characters before its first          *)
(* occurrence, expected not among them, and leaves as remaining input what *)
(* follows that occurrence, so that the next peek is the character after   *)
(* the delimiter (None when the delimiter was last); when expected does    *)
(* not occur it returns Err and leaves no input.                           *)
C21_AdvanceUntilEqualResult ==
    [][AfterAdvanceUntilEqual =>
          LET k == FirstAt(chars, expected')
          IN  IF k > 0
              THEN /\ ok'
                   /\ out' = SubSeq(chars, 1, k - 1)
                   /\ FirstAt(out', expected') = 0
                   /\ chars' = SubSeq(chars, k + 1, Len(chars))
                   /\ Peek(St)' = IF k < Len(chars) THEN chars[k + 1]
                                  ELSE None
              ELSE /\ ~ok'
                   /\ chars' = << >>
                   /\ Peek(St)' = None]_vars

C21_Witness ==
    /\ pc = "test"
    /\ caller = "advance_until_equal"
    /\ source = <<"a", "b", "c", "|", "d", "e", "f">>
    /\ expected = "|"
    /\ ok
    /\ out = <<"a", "b", "c">>
    /\ column = 4
    /\ Peek(St) = "d"

----------------------------------------------------------------------------
AfterAdvanceWhileMatching ==
    pc' = "test" /\ caller' = "advance_while_matching"

(* The length of the longest prefix of seq whose characters all satisfy f. *)
MatchingPrefix(seq, f) ==
    CHOOSE n \in 0..Len(seq) :
        /\ \A i \in 1..n : Matches(f, seq[i])
        /\ n = Len(seq) \/ ~Matches(f, seq[n + 1])

(* C22: a call advance_while_matching(f) returns exactly the longest       *)
(* prefix of the remaining input whose characters all satisfy f and        *)
(* consumes exactly that prefix: the first character that fails f stays    *)
(* the next peek, and when the prefix is empty (first character fails f,   *)
(* or no input is left) the remaining input, line and column are as they   *)
(* were.                                                                   *)
C22_AdvanceWhileMatchingResult ==
    [][AfterAdvanceWhileMatching =>
          LET n == MatchingPrefix(chars, pred')
          IN  /\ out' = SubSeq(chars, 1, n)
              /\ chars' = SubSeq(chars, n + 1, Len(chars))
              /\ n < Len(chars) =>
                    Peek(St)' = chars[n + 1] /\ ~Matches(pred', Peek(St)')
              /\ line' = line
              /\ column' = column + n
              /\ n = 0 => out' = << >> /\ chars' = chars
                          /\ line' = line /\ column' = column]_vars

C22_Witness ==
    /\ pc = "test"
    /\ caller = "advance_while_matching"
    /\ source = <<"a", "b", "c", "1", "2", "3", "d", "e", "f">>
    /\ pred = "is_alphabetic"
    /\ out = <<"a", "b", "c">>
    /\ column = 3
    /\ Peek(St) = "1"

----------------------------------------------------------------------------
AfterAdvance == pc' = "test" /\ caller' = "advance"

AfterPeek == pc' = "test" /\ caller' = "peek"

(* C23: a call advance() with input left removes the next character and    *)
(* returns it, and raises column by one, except that for a newline it      *)
(* raises line by one and sets column to 0; with no input left it returns  *)
(* None and the input stays exhausted. A call peek() returns the next      *)
(* character (None when none is left) and leaves the remaining input, line *)
(* and column as they are.                                                 *)
C23_AdvanceAndPeek ==
    /\ [][AfterAdvance =>
            IF chars # << >>
            THEN /\ c' = Head(chars)
                 /\ chars' = Tail(chars)
                 /\ IF Head(chars) = "\n"
                    THEN line' = line + 1 /\ column' = 0
                    ELSE line' = line /\ column' = column + 1
            ELSE /\ c' = None
                 /\ chars' = << >>
                 /\ line' = line]_vars
    /\ [][AfterPeek =>
            /\ c' = (IF chars = << >> THEN None ELSE Head(chars))
            /\ chars' = chars
            /\ line' = line
            /\ column' = column]_vars

C23_Witness ==
    /\ pc = "test"
    /\ caller = "advance"
    /\ source = <<"a", "b", "\n", "a">>
    /\ chars = <<"a">>
    /\ c = "\n"
    /\ line = 2
    /\ column = 0

----------------------------------------------------------------------------
RECURSIVE Value(_)
(* The arithmetic value of an expression. *)
Value(e) ==
    CASE e.kind = "IntLiteral" -> e.i
      [] e.kind = "Addition" -> Value(e.left) + Value(e.right)
      [] e.kind = "Subtraction" -> Value(e.left) - Value(e.right)
      [] e.kind = "Multiplication" -> Value(e.left) * Value(e.right)

(* C24: for every expression tree over IntLiteral, Addition, Subtraction   *)
(* and Multiplication, accept with a new EvalVisitor followed by result()  *)
(* gives the arithmetic value of the expression, a Subtraction being the   *)
(* value of its left subtree minus the value of its right subtree.         *)
C24_VisitorEvaluates ==
    op = "result" => result = Value(tree)

----------------------------------------------------------------------------
IsBracket(ch) == ch \in {"(", ")", "[", "]", "{", "}", "<", ">"}

IsPair(open, close) ==
    <<open, close>> \in {<<"(", ")">>, <<"[", "]">>, <<"{", "}">>,
                         <<"<", ">">>}

RECURSIVE Reduce(_)
(* seq with every adjacent pair of an opening bracket and its closing      *)
(* bracket taken out, again and again until none is left.                  *)
Reduce(seq) ==
    LET at == {k \in 1..(Len(seq) - 1) : IsPair(seq[k], seq[k + 1])}
    IN  IF at = {} THEN seq
        ELSE LET k == CHOOSE x \in at : \A y \in at : x <= y
             IN  Reduce(SubSeq(seq, 1, k - 1) \o SubSeq(seq, k + 2, Len(seq)))

(* The brackets of a text are properly nested. *)
ProperlyNested(txt) == Reduce(SelectSeq(txt, IsBracket)) = << >>

(* The brackets still open after the first k characters of txt. *)
OpenAfter(txt, k) == Reduce(SelectSeq(SubSeq(txt, 1, k), IsBracket))

Examined == Len(input) - Len(rest)

(* C25: is_balanced(s) returns true exactly when the brackets of s, over   *)
(* the pairs () [] {} <> and every other character ignored, are properly   *)
(* nested; when it returns false inside its loop, the character examined   *)
(* last is a closing bracket whose most recent unclosed opening bracket is *)
(* missing or of another kind, and before it no such closing bracket came. *)
C25_BalancedIffNested ==
    /\ [](op = "returned" => (result <=> ProperlyNested(input)))
    /\ [][op' = "returned" /\ rest # << >> =>
            LET open == OpenAfter(input, Examined)
            IN  /\ ~result'
                /\ Head(rest) \in Closings
                /\ open = << >> \/ ~IsPair(open[Len(open)], Head(rest))
                /\ \A k \in 1..Len(open) : open[k] \in Openings]_vars

C25_Witness ==
    /\ op = "returned"
    /\ input = <<"(", "<", "{", "(", ")", "}", ">", ")", "[", "]">>
    /\ result
    /\ rest = << >>

----------------------------------------------------------------------------
(* C26: the stack is LIFO over any sequence of push and pop calls: a pop   *)
(* returns the item pushed last among those not yet popped and removes it  *)
(* (the items left are the earlier ones), and a pop on an empty stack      *)
(* returns None and leaves the stack empty.                                *)
C26_StackIsLifo ==
    [][op' = "pop" =>
          IF live = << >>
          THEN result' = Nothing /\ Stack_is_empty(content')
          ELSE /\ result' = Some(live[Len(live)])
               /\ Stack_size(content') = Len(live) - 1
               /\ \A i \in 1..(Len(live) - 1) :
                     content'[Len(live) - i] = live[i]]_vars

C26_Witness ==
    /\ op = "pop"
    /\ result = Some(3)
    /\ pushes = 3
    /\ pops = 2
    /\ content = <<2>>

----------------------------------------------------------------------------
(* C27: after any sequence of push and pop calls, peek returns the item    *)
(* pushed last among those not yet popped (None on an empty stack), which  *)
(* is what a pop made next returns, and leaves content and size as they    *)
(* are.                                                                    *)
C27_PeekIsNextPop ==
    /\ [][op' = "peek" =>
            /\ result' = IF live = << >> THEN Nothing
                         ELSE Some(live[Len(live)])
            /\ content' = content
            /\ Stack_size(content') = Stack_size(content)]_vars
    /\ [][op = "peek" /\ op' = "pop" => result' = result]_vars

C27_Witness ==
    /\ op = "peek"
    /\ result = Some(3)
    /\ content = <<3, 2>>
    /\ pushes = 3
    /\ pops = 1

----------------------------------------------------------------------------
(* C28: after any sequence of push, pop and peek calls on a new stack,     *)
(* size() is the number of pushes minus the number of pops that returned   *)
(* an item, it is never negative, and is_empty() is true exactly when      *)
(* size() is 0.                                                            *)
C28_SizeCountsItems ==
    /\ Stack_size(content) = pushes - pops
    /\ Stack_size(content) >= 0
    /\ Stack_is_empty(content) <=> Stack_size(content) = 0
    /\ op = "size" => result = pushes - pops /\ result >= 0
    /\ op = "is_empty" => (result <=> pushes - pops = 0)

C28_Witness ==
    /\ op = "size"
    /\ result = 2
    /\ pushes = 4
    /\ pops = 2

----------------------------------------------------------------------------
AcceptReturns == op = "accept" /\ Len(frames') < Len(frames)

VisitsBranch ==
    op = "accept" /\ frames # << >> /\ Head(frames).stage = "visit"

(* C29: during accept of any expression tree with a new EvalVisitor no     *)
(* unwrap meets None: when a branch is visited the stack holds at least    *)
(* two values, when the accept of a tree or subtree returns the stack      *)
(* holds exactly one value more than when it was called, and result()      *)
(* after the whole traversal finds a value and leaves the stack empty.     *)
C29_VisitorNeverPopsEmpty ==
    /\ [](op # "panic")
    /\ [](VisitsBranch => Stack_size(content) >= 2)
    /\ [][AcceptReturns =>
            Stack_size(content') = Head(frames).base + 1]_vars
    /\ [](op = "accept" /\ frames = << >> => Stack_size(content) = 1)
    /\ [](op = "result" => Stack_is_empty(content))

C29_Witness ==
    /\ op = "result"
    /\ tree = SampleTree
    /\ result = 60
    /\ Stack_is_empty(content)

----------------------------------------------------------------------------
(* One of the two evaluators has returned. *)
Evaluated == op \in {"Tree::eval", "eval"}

(* C30: for every expression tree over IntLiteral, Addition and            *)
(* Multiplication, Tree::eval and eval(&tree) return the arithmetic value  *)
(* of the expression, so that either called after the other returns what   *)
(* the other returned.                                                     *)
C30_EvaluatorsAgree ==
    /\ [](Evaluated => result = Value(tree.root))
    /\ [][Evaluated => result' = result]_vars

C30_Witness ==
    /\ op = "eval"
    /\ tree = Tree(SampleTree)
    /\ result = 60

====
